---- MODULE Spec2Model ----
(***************************************************************************)
(* State-machine model of nyt-rankbot: the result store (table            *)
(* nyt_rankbot), the ingestion, clear, manual-add and scoreboard handlers *)
(* of utils/helpers.py, the ranking and period aggregation, and the       *)
(* result parsers of utils/calculate_attempts.py.                         *)
(***************************************************************************)
EXTENDS Integers, Sequences, FiniteSets, TLC

VARIABLES
    store,      \* rows of table nyt_rankbot, in insertion (rowid) order
    today,      \* the current UTC date, datetime.now(pytz.utc).date()
    update,     \* the update the dispatcher handed to a handler last
    out,        \* the Telegram calls that handler made
    pc,         \* position of each concurrent add_game invocation
    args,       \* arguments and locals of each concurrent add_game invocation
    message,    \* text of the incoming message given to the parser
    parsed,     \* what handle_messages extracted from the message
    ranked,     \* the DataFrame calculate_rankings returned last
    totals      \* what calculate_period_total returned last

vars == <<store, today, update, out, pc, args, message, parsed, ranked, totals>>

\* ------------------------------------------------------------ bounds
MaxStore == 2
MaxTable == 4

\* The most guess lines of a modelled Connections message.
MaxGuesses == 3

\* ------------------------------------------------------------ inputs
Users == {"ann", "bob"}
Games == {"Connections", "Mini", "Wordle"}
Scores == {3, 5}

\* Python compares str values by code point; the names in use, ascending.
StrOrder == <<"Connections", "Mini", "Wordle", "ann", "bob">>

StrKey(s) == CHOOSE i \in 1..Len(StrOrder) : StrOrder[i] = s

StrLess(a, b) == StrKey(a) < StrKey(b)

\* ------------------------------------------------------------ dates
Date(y, m, d) == [year |-> y, month |-> m, day |-> d]

DateLess(a, b) ==
    \/ a.year < b.year
    \/ a.year = b.year /\ a.month < b.month
    \/ a.year = b.year /\ a.month = b.month /\ a.day < b.day

DateLE(a, b) == a = b \/ DateLess(a, b)

IsLeap(y) == (y % 4 = 0 /\ y % 100 # 0) \/ y % 400 = 0

DaysInMonth(y, m) ==
    IF m = 2 THEN (IF IsLeap(y) THEN 29 ELSE 28)
    ELSE IF m \in {4, 6, 9, 11} THEN 30 ELSE 31

\* d - pd.Timedelta(days=1)
MinusOneDay(d) ==
    IF d.day > 1 THEN Date(d.year, d.month, d.day - 1)
    ELSE IF d.month > 1
         THEN Date(d.year, d.month - 1, DaysInMonth(d.year, d.month - 1))
         ELSE Date(d.year - 1, 12, 31)

\* The dates the clock takes in the sequential and the concurrent runs.
ClockDates == {Date(2023, 12, 31), Date(2024, 1, 1), Date(2024, 1, 2)}

\* ------------------------------------------------------------ store
Row(u, g, s, d) == [user |-> u, game |-> g, score |-> s, date |-> d]

NoRow == Row("", "", 0, Date(0, 0, 0))

\* The lookup with the date left out of the WHERE clause.
user_has_submitted_any_date(table, u, g, d) ==
    \E i \in 1..Len(table) : table[i].user = u /\ table[i].game = g

\* SELECT * FROM nyt_rankbot WHERE user = .. AND game = .. AND date = ..
user_has_submitted(table, u, g, d) ==
    \E i \in 1..Len(table) :
        table[i].user = u /\ table[i].game = g /\ table[i].date = d

\* INSERT INTO nyt_rankbot (user, game, score, date) VALUES (..), with the
\* four values helpers.py passes (queries.py declares them as one tuple).
add_game_to_database(table, u, g, s, d) == Append(table, Row(u, g, s, d))

NoUser == ""

\* The DELETE with the user left out of the WHERE clause.
KeepIgnoringUser(r, d, u) == r.date # d

Keep(r, d, u) == ~(r.date = d /\ (u = NoUser \/ r.user = u))

\* DELETE FROM nyt_rankbot WHERE date = .. [AND user = ..]
clear_table(table, d, u) ==
    LET keep(r) == Keep(r, d, u) IN SelectSeq(table, keep)

\* ------------------------------------------------------------ ranking
\* Row order of sort_values(by=["date", "game", "score"]).
RowLess(a, b) ==
    \/ DateLess(a.date, b.date)
    \/ a.date = b.date /\ StrLess(a.game, b.game)
    \/ a.date = b.date /\ a.game = b.game /\ a.score < b.score

\* The place of x in an already sorted frame: after every row that is not
\* greater, which is what keeps the multi-column sort stable.
InsertRow(sorted, x) ==
    LET before == {i \in 1..Len(sorted) : RowLess(x, sorted[i])}
        k == IF before = {} THEN Len(sorted) + 1
             ELSE CHOOSE i \in before : \A j \in before : i <= j
    IN  SubSeq(sorted, 1, k - 1) \o <<x>> \o SubSeq(sorted, k, Len(sorted))

RECURSIVE sort_values(_)
sort_values(df) ==
    IF df = <<>> THEN <<>>
    ELSE InsertRow(sort_values(SubSeq(df, 1, Len(df) - 1)), df[Len(df)])

\* rank(method="dense"): tied rows share a rank and the next rank follows
\* with no gap.
RankDense(df, i) ==
    1 + Cardinality({df[j].score : j \in {k \in 1..Len(df) :
            /\ df[k].date = df[i].date
            /\ df[k].game = df[i].game
            /\ df[k].score < df[i].score}})

\* The rank within the records of the date alone, whatever their game.
RankMinByDate(df, i) ==
    1 + Cardinality({j \in 1..Len(df) :
            df[j].date = df[i].date /\ df[j].score < df[i].score})

\* groupby(["date", "game"])["score"].rank(method="min") for row i of the
\* sorted frame: the place, within its group, of the first row tied with it.
RankMin(df, i) ==
    LET group == {j \in 1..Len(df) :
                    df[j].date = df[i].date /\ df[j].game = df[i].game}
        tied == {j \in group : df[j].score = df[i].score}
        first(S) == CHOOSE j \in S : \A k \in S : j <= k
    IN  first(tied) - first(group) + 1

\* The mapping with the ranks it does not name filled with 1.
point_mapping_fill_one(rank) ==
    IF rank = 1 THEN 3 ELSE IF rank = 2 THEN 2 ELSE 1

\* .map({1: 3, 2: 2, 3: 1}).fillna(0)
point_mapping(rank) ==
    IF rank = 1 THEN 3 ELSE IF rank = 2 THEN 2 ELSE IF rank = 3 THEN 1 ELSE 0

calculate_rankings(data) ==
    LET sorted_df == sort_values(data)
    IN  [i \in 1..Len(sorted_df) |->
            [user |-> sorted_df[i].user, game |-> sorted_df[i].game,
             score |-> sorted_df[i].score, date |-> sorted_df[i].date,
             points |-> point_mapping(RankMin(sorted_df, i))]]

\* ------------------------------------------------------------ period totals
ValueError == "ValueError"

\* datetime(today.year, today.month, 1) and
\* datetime(today.year, today.month + 1, 1) - pd.Timedelta(days=1);
\* datetime() refuses a month outside 1..12.
MonthWindow(d) ==
    IF d.month + 1 > 12
    THEN [error |-> ValueError, start |-> d, end |-> d]
    ELSE [error |-> "", start |-> Date(d.year, d.month, 1),
          end |-> MinusOneDay(Date(d.year, d.month + 1, 1))]

PeriodDf(sorted_df, d, period) ==
    LET w == MonthWindow(d)
        in_today(r) == r.date = d
        in_month(r) == DateLE(w.start, r.date) /\ DateLE(r.date, w.end)
    IN  IF period = "today" THEN SelectSeq(sorted_df, in_today)
        ELSE SelectSeq(sorted_df, in_month)

RECURSIVE SumPoints(_)
SumPoints(df) ==
    IF df = <<>> THEN 0 ELSE df[1].points + SumPoints(Tail(df))

RECURSIVE SortedUsers(_)
SortedUsers(S) ==
    IF S = {} THEN <<>>
    ELSE LET u == CHOOSE x \in S : \A y \in S : x = y \/ StrLess(x, y)
         IN  <<u>> \o SortedUsers(S \ {u})

\* groupby("user")["points"].sum().reset_index(): one row per user, the
\* group keys in ascending order (groupby sorts its keys).
GroupbyUserSum(period_df) ==
    LET users == SortedUsers({period_df[i].user : i \in 1..Len(period_df)})
        of(u) == LET mine(r) == r.user = u IN SelectSeq(period_df, mine)
    IN  [k \in 1..Len(users) |->
            [user |-> users[k], points |-> SumPoints(of(users[k]))]]

\* The sort with ascending left at its default, True.
SortValuesAscending(t) ==
    LET n == Len(t)
        arranged(p) == [i \in 1..n |-> t[p[i]]]
    IN  {arranged(p) : p \in {q \in Permutations(1..n) :
            \A i \in 1..n - 1 : t[q[i]].points <= t[q[i + 1]].points}}

\* sort_values(by="points", ascending=False) with the default kind,
\* quicksort, which is not a stable sort: every descending arrangement of
\* the rows is a possible result.
SortValuesDescending(t) ==
    LET n == Len(t)
        arranged(p) == [i \in 1..n |-> t[p[i]]]
    IN  {arranged(p) : p \in {q \in Permutations(1..n) :
            \A i \in 1..n - 1 : t[q[i]].points >= t[q[i + 1]].points}}

\* The possible results of calculate_period_total(sorted_df, today, period).
calculate_period_total(sorted_df, d, period) ==
    IF period = "month" /\ MonthWindow(d).error # ""
    THEN {[error |-> ValueError, period_df |-> <<>>, period_total_df |-> <<>>]}
    ELSE LET period_df == PeriodDf(sorted_df, d, period)
         IN  {[error |-> "", period_df |-> period_df, period_total_df |-> t] :
                 t \in SortValuesDescending(GroupbyUserSum(period_df))}

\* ------------------------------------------------------------ scoreboard
\* sorted_df[sorted_df["date"] == today]["game"].unique(), in frame order.
RECURSIVE Unique(_)
Unique(s) ==
    IF s = <<>> THEN <<>>
    ELSE LET rest == Unique(SubSeq(s, 1, Len(s) - 1))
             x == s[Len(s)]
         IN  IF \E i \in 1..Len(rest) : rest[i] = x THEN rest
             ELSE Append(rest, x)

GameBlock(sorted_df, d, g) ==
    LET mine(r) == r.game = g /\ r.date = d
        game_today_df == SelectSeq(sorted_df, mine)
    IN  [kind |-> "game", game |-> g,
         rows |-> [i \in 1..Len(game_today_df) |->
                     [user |-> game_today_df[i].user,
                      score |-> game_today_df[i].score]]]

DailyBlock(today_total_df) ==
    IF Len(today_total_df) = 0
    THEN [kind |-> "no_points_today", game |-> "", rows |-> <<>>]
    ELSE [kind |-> "daily_totals", game |-> "", rows |-> today_total_df]

\* The monthly block without its empty-state branch.
MonthlyBlockNoFallback(monthly_total_df) ==
    [kind |-> "monthly_totals", game |-> "", rows |-> monthly_total_df]

MonthlyBlock(monthly_total_df) ==
    IF Len(monthly_total_df) = 0
    THEN [kind |-> "no_points_month", game |-> "", rows |-> <<>>]
    ELSE [kind |-> "monthly_totals", game |-> "", rows |-> monthly_total_df]

ScoreboardBlocks(sorted_df, d, monthly, daily) ==
    LET is_today(r) == r.date = d
        today_rows == SelectSeq(sorted_df, is_today)
        games == Unique([i \in 1..Len(today_rows) |-> today_rows[i].game])
    IN  [i \in 1..Len(games) |-> GameBlock(sorted_df, d, games[i])]
        \o <<DailyBlock(daily.period_total_df)>>
        \o <<MonthlyBlock(monthly.period_total_df)>>

\* The possible results of prepare_scoreboard_msg(): the monthly total is
\* computed first, and its ValueError leaves the function before any text
\* is built.
prepare_scoreboard_msg(table, d) ==
    LET sorted_df == calculate_rankings(table)
        months == calculate_period_total(sorted_df, d, "month")
        days == calculate_period_total(sorted_df, d, "today")
    IN  IF \E m \in months : m.error # ""
        THEN {[error |-> ValueError, blocks |-> <<>>]}
        ELSE {[error |-> "", blocks |-> ScoreboardBlocks(sorted_df, d, m, t)] :
                 m \in months, t \in days}

\* ------------------------------------------------------------ telegram
\* A private chat, and a group of one member and the bot.
Chats ==
    {[type |-> "private", members |-> 1], [type |-> "group", members |-> 2]}

get_participants_count(chat) ==
    IF chat.type # "group" THEN 1 ELSE chat.members - 1

Text(kind, u, g, s, d, blocks) ==
    [kind |-> kind, user |-> u, game |-> g, score |-> s, date |-> d,
     blocks |-> blocks]

NoDate == Date(0, 0, 0)

Reply(text) == [call |-> "reply_text", text |-> text]

SetChatDescription(text) == [call |-> "set_chat_description", text |-> text]

Raised(e) == [call |-> "raise", text |-> Text(e, "", "", 0, NoDate, <<>>)]

DuplicateText(u, g) == Text("already_submitted", u, g, 0, NoDate, <<>>)

ScoreboardText(msg) == Text("scoreboard", "", "", 0, NoDate, msg.blocks)

check_all_submitted(table, d, chat) ==
    LET sorted_df == calculate_rankings(table)
        is_today(r) == r.date = d
        sorted_df_today == SelectSeq(sorted_df, is_today)
        idx == 1..Len(sorted_df_today)
        games == {sorted_df_today[i].game : i \in idx}
        users(g) == {sorted_df_today[i].user :
                        i \in {j \in idx : sorted_df_today[j].game = g}}
    IN  /\ Cardinality(games) = 3
        /\ \A g \in games :
               Cardinality(users(g)) = get_participants_count(chat)

\* What add_game sends after its insert, one sequence of calls for each
\* scoreboard text the build can produce.
Broadcast(table, d, chat) ==
    {IF msg.error # "" THEN <<Raised(msg.error)>>
     ELSE (IF chat.type = "group"
           THEN <<SetChatDescription(ScoreboardText(msg))>> ELSE <<>>)
          \o (IF check_all_submitted(table, d, chat)
              THEN <<Reply(Text("all_submitted", "", "", 0, NoDate, <<>>)),
                     Reply(ScoreboardText(msg))>>
              ELSE <<>>) :
        msg \in prepare_scoreboard_msg(table, d)}

\* ------------------------------------------------------------ handlers
\* Column score is declared Integer: a value given as decimal text is
\* stored as the number it spells.
Digits == <<"0", "1", "2", "3", "4", "5", "6", "7", "8", "9">>

IsDigit(c) == \E i \in 1..Len(Digits) : Digits[i] = c

DigitValue(c) == (CHOOSE i \in 1..Len(Digits) : Digits[i] = c) - 1

RECURSIVE IntegerColumn(_)
IntegerColumn(text) ==
    IF text = <<>> THEN 0
    ELSE 10 * IntegerColumn(SubSeq(text, 1, Len(text) - 1))
         + DigitValue(text[Len(text)])

NoChat == [type |-> "", members |-> 0]

\* What a handler reads from its update: the command (add_game for a text
\* message that parsed as a result), the arguments, and the chat when the
\* handler comes to ask for it.
Update(command, u, g, s, text, argc, chat) ==
    [command |-> command, user |-> u, game |-> g, score |-> s,
     text |-> text, argc |-> argc, chat |-> chat]

NoUpdate == Update("", "", "", 0, <<>>, 0, NoChat)

Idle == [p \in {1, 2} |-> "idle"]

NoArgs == [p \in {1, 2} |-> NoRow]

\* What handle_messages hands to add_game: the game, and the score as the
\* text or the number the parser returned; error names what the parser
\* raised instead.
Parsed(game, score, number, error) ==
    [game |-> game, score |-> score, number |-> number, error |-> error]

NoParse == Parsed("", <<>>, 0, "")

NoRanked == [done |-> FALSE, df |-> <<>>]

NoTotals ==
    [period |-> "", error |-> "", period_df |-> <<>>, period_total_df |-> <<>>]

\* add_game(user, game, score, context, update), run by the dispatcher
\* from start to end.
AddGame(u, g, s, chat) ==
    /\ IF user_has_submitted(store, u, g, today)
       THEN /\ update' = Update("add_game", u, g, s, <<>>, 0, NoChat)
            /\ out' = <<Reply(DuplicateText(u, g))>>
            /\ store' = store
       ELSE /\ Len(store) < MaxStore
            /\ update' = Update("add_game", u, g, s, <<>>, 0, chat)
            /\ store' = add_game_to_database(store, u, g, s, today)
            /\ out' \in Broadcast(store', today, chat)
    /\ UNCHANGED <<today, pc, args, message, parsed, ranked, totals>>

\* add_manual_score(update, context): the /add command.
AddManualScore(argv) ==
    IF Len(argv) # 3
    THEN /\ update' = Update("/add", "", "", 0, <<>>, Len(argv), NoChat)
         /\ out' = <<Reply(Text("usage", "", "", 0, NoDate, <<>>))>>
         /\ UNCHANGED <<store, today, pc, args, message, parsed, ranked, totals>>
    ELSE /\ Len(store) < MaxStore
         /\ update' = Update("/add", argv[1], argv[2], 0, argv[3], 3, NoChat)
         /\ store' = add_game_to_database(
                store, argv[1], argv[2], IntegerColumn(argv[3]), today)
         /\ out' = <<Reply(Text("score_added", argv[1], argv[2],
                                IntegerColumn(argv[3]), NoDate, <<>>))>>
         /\ UNCHANGED <<today, pc, args, message, parsed, ranked, totals>>

\* clear_scoreboard(update, context): the /clear command, u = NoUser when
\* the command has no argument.
ClearScoreboard(u) ==
    /\ update' = Update("/clear", u, "", 0, <<>>,
                        IF u = NoUser THEN 0 ELSE 1, NoChat)
    /\ store' = clear_table(store, today, u)
    /\ out' = <<Reply(Text("cleared", u, "", 0, today, <<>>))>>
    /\ UNCHANGED <<today, pc, args, message, parsed, ranked, totals>>

\* show_scoreboard(update, context): the /scoreboard command.
ShowScoreboard ==
    /\ update' = Update("/scoreboard", "", "", 0, <<>>, 0, NoChat)
    /\ \E msg \in prepare_scoreboard_msg(store, today) :
           out' = IF msg.error # "" THEN <<Raised(msg.error)>>
                  ELSE <<Reply(ScoreboardText(msg))>>
    /\ UNCHANGED <<store, today, pc, args, message, parsed, ranked, totals>>

\* The UTC date moves on between two updates.
Tick ==
    /\ \E d \in ClockDates : DateLess(today, d) /\ today' = d
    /\ UNCHANGED <<store, update, out, pc, args, message, parsed, ranked, totals>>

ManualArgs ==
    {<<u, g, s>> : u \in Users, g \in Games, s \in {<<"3">>, <<"5">>}}
    \cup {<<u, g>> : u \in Users, g \in Games}

Init ==
    /\ store = <<>>
    /\ today \in ClockDates
    /\ update = NoUpdate
    /\ out = <<>>
    /\ pc = Idle
    /\ args = NoArgs
    /\ message = <<>>
    /\ parsed = NoParse
    /\ ranked = NoRanked
    /\ totals = NoTotals

Next ==
    \/ \E u \in Users, g \in Games, s \in Scores, chat \in Chats :
           AddGame(u, g, s, chat)
    \/ \E argv \in ManualArgs : AddManualScore(argv)
    \/ \E u \in Users \cup {NoUser} : ClearScoreboard(u)
    \/ ShowScoreboard
    \/ Tick

Spec == Init /\ [][Next]_vars

\* ------------------------------------------------------------ claims, Spec
KeyCount(table, u, g, d) ==
    Cardinality({i \in 1..Len(table) :
        table[i].user = u /\ table[i].game = g /\ table[i].date = d})

\* A step in which the dispatcher ran the handler of the given command.
Handled(command) == update'.command = command /\ today' = today

C3_AtMostOnePerKey ==
    \A i, j \in 1..Len(store) :
        (/\ store[i].user = store[j].user
         /\ store[i].game = store[j].game
         /\ store[i].date = store[j].date) => i = j

\* C7: /clear deletes exactly the records dated today, and only those of
\* the user when one is given; all other records stay, in their order.
C7_ClearDeletesExactly ==
    [][Handled("/clear") =>
          LET u == update'.user
              stays(r) == r.date # today \/ (u # NoUser /\ r.user # u)
          IN  store' = SelectSeq(store, stays)]_vars

\* C7 witness: a /clear for one user has run and the store still holds a
\* record of today of another user and a record of that user of another
\* date.
C7_Witness ==
    /\ update.command = "/clear"
    /\ update.user # NoUser
    /\ out = <<Reply(Text("cleared", update.user, "", 0, today, <<>>))>>
    /\ \E i \in 1..Len(store) :
           store[i].date = today /\ store[i].user # update.user
    /\ \E i \in 1..Len(store) :
           store[i].date # today /\ store[i].user = update.user

SameMonth(a, b) == a.year = b.year /\ a.month = b.month

BlockOrder(blocks, table, d) ==
    LET n == Len(blocks)
        games_today == {table[i].game :
                           i \in {j \in 1..Len(table) : table[j].date = d}}
    IN  /\ n = Cardinality(games_today) + 2
        /\ \A i \in 1..n - 2 : blocks[i].kind = "game"
        /\ {blocks[i].game : i \in 1..n - 2} = games_today
        /\ blocks[n - 1].kind \in {"daily_totals", "no_points_today"}
        /\ blocks[n - 1].kind = "no_points_today"
               <=> ~\E i \in 1..Len(table) : table[i].date = d
        /\ blocks[n].kind \in {"monthly_totals", "no_points_month"}
        /\ blocks[n].kind = "no_points_month"
               <=> ~\E i \in 1..Len(table) : SameMonth(table[i].date, d)

Procs == {1, 2}

\* Lines 118-123: read the date, look the key up, reply and return when it
\* is there.
RaceCheck(p, u, g, s) ==
    /\ pc[p] = "idle"
    /\ args' = [args EXCEPT ![p] = Row(u, g, s, today)]
    /\ IF user_has_submitted(store, u, g, today)
       THEN /\ pc' = [pc EXCEPT ![p] = "rejected"]
            /\ out' = <<Reply(DuplicateText(u, g))>>
       ELSE /\ pc' = [pc EXCEPT ![p] = "insert"]
            /\ out' = out
    /\ UNCHANGED <<store, today, update, message, parsed, ranked, totals>>

\* Lines 126-138: insert the row and broadcast the scoreboard.
RaceInsert(p, chat) ==
    /\ pc[p] = "insert"
    /\ store' = add_game_to_database(
           store, args[p].user, args[p].game, args[p].score, args[p].date)
    /\ out' \in Broadcast(store', today, chat)
    /\ pc' = [pc EXCEPT ![p] = "accepted"]
    /\ UNCHANGED <<today, update, args, message, parsed, ranked, totals>>

RaceNext ==
    \/ \E p \in Procs, u \in Users, g \in Games, s \in Scores :
           RaceCheck(p, u, g, s)
    \/ \E p \in Procs, chat \in Chats : RaceInsert(p, chat)

RaceSpec == Init /\ [][RaceNext]_vars

\* C1: when both ingestions have ended and they were for the same (user,
\* game, date), the store holds exactly one record for that key and at most
\* one of the two was accepted.
C1_ConcurrentDuplicate ==
    (/\ \A p \in Procs : pc[p] \in {"accepted", "rejected"}
     /\ args[1].user = args[2].user
     /\ args[1].game = args[2].game
     /\ args[1].date = args[2].date)
        => /\ KeyCount(store, args[1].user, args[1].game, args[1].date) = 1
           /\ \E p \in Procs : pc[p] = "rejected"

\* ------------------------------------------------------------ ranking runs
\* calculate_rankings and calculate_period_total applied to every table of
\* at most MaxTable rows that the store can hold: rows in insertion order,
\* so their dates never decrease, and none dated after today.
RankDates == {Date(2023, 12, 31), Date(2024, 1, 1), Date(2024, 1, 2)}

\* Three groups: two games on the first date, one of them on the second.
RankGroups ==
    {<<Date(2023, 12, 31), "Mini">>, <<Date(2023, 12, 31), "Wordle">>,
     <<Date(2024, 1, 1), "Wordle">>}

\* The records of the three groups, and one record of the day after them,
\* so that a month holds two days with records.
RankRows ==
    {Row(u, k[2], s, k[1]) : u \in Users, s \in Scores, k \in RankGroups}
    \cup {Row("ann", "Wordle", 3, Date(2024, 1, 2))}

Tables ==
    UNION {{t \in [1..n -> RankRows] :
               \A i \in 1..n - 1 : DateLE(t[i].date, t[i + 1].date)} :
           n \in 0..MaxTable}

RankInit ==
    /\ store \in Tables
    /\ today \in RankDates
    /\ \A i \in 1..Len(store) : DateLE(store[i].date, today)
    /\ update = NoUpdate
    /\ out = <<>>
    /\ pc = Idle
    /\ args = NoArgs
    /\ message = <<>>
    /\ parsed = NoParse
    /\ ranked = NoRanked
    /\ totals = NoTotals

\* sorted_df = calculate_rankings()
CalculateRankings ==
    /\ ~ranked.done
    /\ ranked' = [done |-> TRUE, df |-> calculate_rankings(store)]
    /\ UNCHANGED <<store, today, update, out, pc, args, message, parsed, totals>>

\* calculate_period_total(sorted_df, today, period)
CalculatePeriodTotal(period) ==
    /\ ranked.done
    /\ totals.period = ""
    /\ \E o \in calculate_period_total(ranked.df, today, period) :
           totals' = [period |-> period, error |-> o.error,
                      period_df |-> o.period_df,
                      period_total_df |-> o.period_total_df]
    /\ UNCHANGED <<store, today, update, out, pc, args, message, parsed, ranked>>

RankNext ==
    \/ CalculateRankings
    \/ \E period \in {"today", "month"} : CalculatePeriodTotal(period)

RankSpec == RankInit /\ [][RankNext]_vars

\* ------------------------------------------------------------ claims, RankSpec
\* The rows of one (date, game) group, in the order of the ranked frame.
GroupRows(df, d, g) ==
    LET mine(r) == r.date = d /\ r.game = g IN SelectSeq(df, mine)

\* The ranks rank(method="min") gave the rows of the group of (d, g).
GroupRanks(table, d, g) ==
    LET sorted_df == sort_values(table)
        idx == {i \in 1..Len(sorted_df) :
                   sorted_df[i].date = d /\ sorted_df[i].game = g}
        first == CHOOSE i \in idx : \A j \in idx : i <= j
    IN  [k \in 1..Cardinality(idx) |-> RankMin(sorted_df, first + k - 1)]

ScoresAre(df, d, g, scores) ==
    /\ Len(GroupRows(df, d, g)) = Len(scores)
    /\ \A k \in 1..Len(scores) : GroupRows(df, d, g)[k].score = scores[k]

PointsAre(df, d, g, points) ==
    /\ Len(GroupRows(df, d, g)) = Len(points)
    /\ \A k \in 1..Len(points) : GroupRows(df, d, g)[k].points = points[k]

\* C4 as stated: a group with scores [3,3,5] gets ranks [1,1,3] and points
\* [3,3,0].
C4_TieLawAsStated ==
    ranked.done =>
        \A d \in RankDates, g \in Games :
            ScoresAre(ranked.df, d, g, <<3, 3, 5>>) =>
                /\ GroupRanks(store, d, g) = <<1, 1, 3>>
                /\ PointsAre(ranked.df, d, g, <<3, 3, 0>>)

\* C4 amended: a group with scores [3,3,5] gets ranks [1,1,3] and points
\* [3,3,1]: rank 3 maps to 1 point.
C4_TieLaw ==
    ranked.done =>
        \A d \in RankDates, g \in Games :
            ScoresAre(ranked.df, d, g, <<3, 3, 5>>) =>
                /\ GroupRanks(store, d, g) = <<1, 1, 3>>
                /\ PointsAre(ranked.df, d, g, <<3, 3, 1>>)

\* C4 witness: the rankings were computed for a table with a group whose
\* scores are [3,3,5].
C4_Witness ==
    /\ ranked.done
    /\ \E d \in RankDates, g \in Games :
           ScoresAre(ranked.df, d, g, <<3, 3, 5>>)

LowerCount(df, i) ==
    Cardinality({j \in 1..Len(df) :
        /\ df[j].date = df[i].date
        /\ df[j].game = df[i].game
        /\ df[j].score < df[i].score})

SortedStore == sort_values(store)

\* C5: every record is ranked 1 plus the number of records of its (date,
\* game) group with a strictly lower score, and gets 3, 2, 1 points for
\* rank 1, 2, 3 and 0 points for any rank from 4 on.
C5_CompetitionRankPoints ==
    ranked.done =>
        /\ Len(ranked.df) = Len(store)
        /\ \A i \in 1..Len(ranked.df) :
               LET rank == 1 + LowerCount(ranked.df, i)
               IN  /\ RankMin(SortedStore, i) = rank
                   /\ rank = 1 => ranked.df[i].points = 3
                   /\ rank = 2 => ranked.df[i].points = 2
                   /\ rank = 3 => ranked.df[i].points = 1
                   /\ rank >= 4 => ranked.df[i].points = 0
                   /\ ranked.df[i].points \in {0, 1, 2, 3}

\* C5 witness: the rankings were computed for a table in which one record
\* has three records of its group below it, and so rank 4.
C5_Witness ==
    /\ ranked.done
    /\ \E i \in 1..Len(ranked.df) :
           LowerCount(ranked.df, i) = 3 /\ ranked.df[i].points = 0

\* The table without its k-th record.
Remove(table, k) == SubSeq(table, 1, k - 1) \o SubSeq(table, k + 1, Len(table))

\* C13: the ranked rows of a (date, game) group, points included, are the
\* same with and without any one record of another date or another game:
\* deleting such a record (or inserting it, the table being the one after
\* the insertion) changes no points of the group.
C13_GroupIndependence ==
    [][(~ranked.done /\ ranked'.done) =>
          \A k \in 1..Len(store) :
              LET without == calculate_rankings(Remove(store, k))
              IN  \A i \in 1..Len(store) :
                      (store[i].date # store[k].date
                       \/ store[i].game # store[k].game) =>
                          GroupRows(ranked'.df, store[i].date, store[i].game)
                          = GroupRows(without, store[i].date, store[i].game)]_vars

\* C13 witness: the rankings were computed for a table in which a record
\* with 3 points has, on its date, a record of another game with a lower
\* score.
C13_Witness ==
    /\ ranked.done
    /\ \E i \in 1..Len(ranked.df), k \in 1..Len(store) :
           /\ store[k].date = ranked.df[i].date
           /\ store[k].game # ranked.df[i].game
           /\ store[k].score < ranked.df[i].score
           /\ ranked.df[i].points = 3

\* C6: for every reference date the monthly aggregate is computed, over
\* exactly the records dated in the month of the reference date.
C6_MonthWindow ==
    totals.period = "month" =>
        /\ totals.error = ""
        /\ LET in_month(r) == SameMonth(r.date, today)
           IN  totals.period_df = SelectSeq(ranked.df, in_month)

InPeriod(r) ==
    IF totals.period = "today" THEN r.date = today ELSE SameMonth(r.date, today)

PeriodUsers == {ranked.df[i].user : i \in {j \in 1..Len(ranked.df) :
                                              InPeriod(ranked.df[j])}}

PointsOfUser(u) ==
    LET with(n) == Cardinality({i \in 1..Len(ranked.df) :
                       /\ InPeriod(ranked.df[i])
                       /\ ranked.df[i].user = u
                       /\ ranked.df[i].points = n})
    IN  3 * with(3) + 2 * with(2) + with(1)

TotalsAreSums ==
    LET t == totals.period_total_df
    IN  /\ {t[k].user : k \in 1..Len(t)} = PeriodUsers
        /\ Len(t) = Cardinality(PeriodUsers)
        /\ \A k \in 1..Len(t) : t[k].points = PointsOfUser(t[k].user)

TotalsDescending ==
    LET t == totals.period_total_df
    IN  \A k \in 1..Len(t) - 1 : t[k].points >= t[k + 1].points

\* The place at which a user is first met in the rows of the period.
FirstMet(u) ==
    CHOOSE i \in 1..Len(totals.period_df) :
        /\ totals.period_df[i].user = u
        /\ \A j \in 1..i - 1 : totals.period_df[j].user # u

\* Rows with equal totals stand as groupby left them, which is what a
\* stable sort gives.
TiesKeptAsGrouped ==
    LET t == totals.period_total_df
    IN  \A k \in 1..Len(t) - 1 :
            t[k].points = t[k + 1].points => StrLess(t[k].user, t[k + 1].user)

\* C9 as stated: totals are the per-user sums, in descending order, and,
\* the sort being stable, users with equal totals stand in the order in
\* which the ranked rows of the period first name them.
C9_TotalsEncounterOrder ==
    (totals.period # "" /\ totals.error = "") =>
        /\ TotalsAreSums
        /\ TotalsDescending
        /\ TiesKeptAsGrouped =>
               LET t == totals.period_total_df
               IN  \A k \in 1..Len(t) - 1 :
                       t[k].points = t[k + 1].points
                           => FirstMet(t[k].user) < FirstMet(t[k + 1].user)

\* C9 amended: totals are the per-user sums of the points of the period's
\* records, one row per user, in descending order of points; nothing is
\* promised on the order of users with equal totals.
C9_TotalsSortedSums ==
    (totals.period # "" /\ totals.error = "") =>
        TotalsAreSums /\ TotalsDescending

\* C9 witness: totals were computed in which two users have the same,
\* positive total.
C9_Witness ==
    /\ totals.period # ""
    /\ totals.error = ""
    /\ Len(totals.period_total_df) = 2
    /\ totals.period_total_df[1].points = totals.period_total_df[2].points
    /\ totals.period_total_df[1].points > 0

\* The points a totals frame gives a user, none when the user has no row.
TotalOf(period_total_df, u) ==
    LET mine(r) == r.user = u
    IN  SumPoints(SelectSeq(period_total_df, mine))

\* The daily total of user u for day d: calculate_period_total with period
\* "today" for that day, on the ranked frame.
DailyTotal(u, d) ==
    LET o == CHOOSE x \in calculate_period_total(ranked.df, d, "today") : TRUE
    IN  TotalOf(o.period_total_df, u)

RECURSIVE SumDailyTotals(_, _, _)
SumDailyTotals(u, d, day) ==
    IF day = 0 THEN 0
    ELSE DailyTotal(u, Date(d.year, d.month, day))
         + SumDailyTotals(u, d, day - 1)

\* The monthly total of every user is the sum of the user's daily totals
\* over the days of the month of today, and is not less than the daily
\* total of today.
MonthlyIsSumOfDaily ==
    \A u \in Users :
        /\ TotalOf(totals.period_total_df, u)
               = SumDailyTotals(u, today, DaysInMonth(today.year, today.month))
        /\ DailyTotal(u, today) <= TotalOf(totals.period_total_df, u)

\* C14: for every table and every reference date the monthly totals are
\* computed, each user's monthly total is the sum of the user's daily
\* totals over the days of the reference month, and the daily total of the
\* reference date is not greater than the monthly total.
C14_MonthlyIsSumOfDaily ==
    totals.period = "month" =>
        /\ totals.error = ""
        /\ MonthlyIsSumOfDaily

\* The same for the reference dates for which the monthly totals are
\* computed at all.
MonthlyIsSumOfDailyWhenComputed ==
    (totals.period = "month" /\ totals.error = "") => MonthlyIsSumOfDaily

\* Monthly totals that add up the points of two days of one month.
TwoDayMonthlyTotal ==
    /\ totals.period = "month"
    /\ totals.error = ""
    /\ today = Date(2024, 1, 2)
    /\ DailyTotal("ann", Date(2024, 1, 1)) > 0
    /\ DailyTotal("ann", today) > 0
    /\ TotalOf(totals.period_total_df, "ann") > DailyTotal("ann", today)

\* ------------------------------------------------------------ parser
\* A message is the sequence of its characters.
NoMatch == ""

\* re "." : any character but a newline.
IsDot(c) == c # "\n"

StartsAt(msg, i, word) ==
    /\ i + Len(word) - 1 <= Len(msg)
    /\ \A k \in 1..Len(word) : msg[i + k - 1] = word[k]

\* The places j of the group (.) in a match of Wordle.+(.)/[0-9] that
\* starts at i: one character or more after the word, none a newline up to
\* and with j, then the slash and a digit.
WordleGroupPlaces(msg, i) ==
    {j \in i + 7..Len(msg) - 2 :
        /\ \A k \in i + 6..j : IsDot(msg[k])
        /\ msg[j + 1] = "/"
        /\ IsDigit(msg[j + 2])}

\* wordle_pattern.search(message).group(1): the leftmost start that
\* matches, and for it the longest .+ (the quantifier is greedy).
wordle_pattern_search(msg) ==
    LET starts == {i \in 1..Len(msg) :
                      /\ StartsAt(msg, i, <<"W", "o", "r", "d", "l", "e">>)
                      /\ WordleGroupPlaces(msg, i) # {}}
    IN  IF starts = {} THEN NoMatch
        ELSE LET i == CHOOSE a \in starts : \A b \in starts : a <= b
                 places == WordleGroupPlaces(msg, i)
                 j == CHOOSE a \in places : \A b \in places : a >= b
             IN  msg[j]

\* The group returned as it was captured.
wordle_attempts_no_replace(msg) == <<wordle_pattern_search(msg)>>

\* attempts.replace("X", "7"), on the one character of the group.
wordle_attempts(msg) ==
    LET attempts == wordle_pattern_search(msg)
    IN  IF attempts = "X" THEN <<"7">> ELSE <<attempts>>

\* Connections.*\nPuzzle #[0-9]+ : the word, the rest of its line, the
\* line break, and "Puzzle #" with a digit after it.
connections_pattern_search(msg) ==
    \E i \in 1..Len(msg) :
        /\ StartsAt(msg, i, <<"C", "o", "n", "n", "e", "c", "t", "i", "o", "n", "s">>)
        /\ \E j \in i + 11..Len(msg) :
              /\ \A k \in i + 11..j - 1 : IsDot(msg[k])
              /\ msg[j] = "\n"
              /\ StartsAt(msg, j + 1, <<"P", "u", "z", "z", "l", "e", " ", "#">>)
              /\ j + 9 <= Len(msg)
              /\ IsDigit(msg[j + 9])

\* The four coloured squares a Connections result is drawn with, each one
\* character of the message, named by its code point: yellow, green, blue,
\* purple.
Yellow == "U+1F7E8"

Green == "U+1F7E9"

Blue == "U+1F7E6"

Purple == "U+1F7EA"

\* The literal connection_colours, character by character as the source
\* file holds it: sixteen characters, the UTF-8 bytes of the four squares
\* each read as a character of its own (U+00F0, U+0178, U+0178, and one of
\* U+00A8, U+00A9, U+00A6, U+00AA). None of them is one of the squares.
connection_colours ==
    <<"U+00F0", "U+0178", "U+0178", "U+00A8",
      "U+00F0", "U+0178", "U+0178", "U+00A9",
      "U+00F0", "U+0178", "U+0178", "U+00A6",
      "U+00F0", "U+0178", "U+0178", "U+00AA">>

\* str.splitlines(): the lines between the line breaks, no empty line for a
\* break that ends the text.
RECURSIVE splitlines(_)
splitlines(msg) ==
    IF msg = <<>> THEN <<>>
    ELSE LET breaks == {i \in 1..Len(msg) : msg[i] = "\n"}
         IN  IF breaks = {} THEN <<msg>>
             ELSE LET i == CHOOSE a \in breaks : \A b \in breaks : a <= b
                  IN  <<SubSeq(msg, 1, i - 1)>>
                      \o splitlines(SubSeq(msg, i + 1, Len(msg)))

IndexError == "IndexError"

\* What a parser gives back: the number it returns, or the error it raises.
Returned(number) == [error |-> "", number |-> number]

Raises(error) == [error |-> error, number |-> 0]

\* connections_attempts: the lines holding a character of
\* connection_colours; [-1] of them, which raises when there is none; 8
\* when the characters of connection_colours in that line are not all the
\* first of them; the number of such lines otherwise.
connections_attempts(msg) ==
    LET InColours(square) ==
            \E k \in 1..Len(connection_colours) : connection_colours[k] = square
        HasSquare(line) == \E k \in 1..Len(line) : InColours(line[k])
        connections_lines == SelectSeq(splitlines(msg), HasSquare)
    IN  IF Len(connections_lines) = 0 THEN Raises(IndexError)
        ELSE LET final_object ==
                     SelectSeq(connections_lines[Len(connections_lines)],
                               InColours)
             IN  IF \E k \in 1..Len(final_object) :
                        final_object[k] # final_object[1]
                 THEN Returned(8)
                 ELSE Returned(Len(connections_lines))

\* The places j of "t=" in a match of badges\/games\/mini.+t=([0-9]+) that
\* starts at i: one character or more of the line after the word, then
\* "t=" and a digit.
MiniGroupPlaces(msg, i) ==
    {j \in i + 18..Len(msg) - 2 :
        /\ \A k \in i + 17..j - 1 : IsDot(msg[k])
        /\ msg[j] = "t"
        /\ msg[j + 1] = "="
        /\ IsDigit(msg[j + 2])}

\* [0-9]+ from place j: the longest run of digits.
RECURSIVE DigitRun(_, _)
DigitRun(msg, j) ==
    IF j <= Len(msg) /\ IsDigit(msg[j])
    THEN <<msg[j]>> \o DigitRun(msg, j + 1)
    ELSE <<>>

\* mini_pattern.search(message).group(1): the leftmost start, the longest
\* .+, the digits after "t=".
mini_pattern_search(msg) ==
    LET starts == {i \in 1..Len(msg) :
                      /\ StartsAt(msg, i, <<"b", "a", "d", "g", "e", "s", "/", "g", "a", "m", "e", "s",
                                            "/", "m", "i", "n", "i">>)
                      /\ MiniGroupPlaces(msg, i) # {}}
    IN  IF starts = {} THEN NoMatch
        ELSE LET i == CHOOSE a \in starts : \A b \in starts : a <= b
                 places == MiniGroupPlaces(msg, i)
                 j == CHOOSE a \in places : \A b \in places : a >= b
             IN  DigitRun(msg, j + 2)

\* mini_time: the group as text.
mini_time(msg) == mini_pattern_search(msg)

ISolvedThe == <<"I", " ", "s", "o", "l", "v", "e", "d", " ", "t", "h", "e",
                " ">>

NewYorkTimesMiniCrosswordIn ==
    <<" ", "N", "e", "w", " ", "Y", "o", "r", "k", " ", "T", "i",
      "m", "e", "s", " ", "M", "i", "n", "i", " ", "C", "r", "o",
      "s", "s", "w", "o", "r", "d", " ", "i", "n", " ">>

\* The places <<p, q>> of the words " New York Times Mini Crossword in " and
\* of the closing "!" in a match of mini_pattern_app that starts at i: the
\* .* between the two phrases and the group (.+), one character or more,
\* hold no line break.
MiniAppPlaces(msg, i) ==
    LET from == i + Len(ISolvedThe)
        ps == {p \in from..Len(msg) :
                  /\ StartsAt(msg, p, NewYorkTimesMiniCrosswordIn)
                  /\ \A k \in from..p - 1 : IsDot(msg[k])}
        Group(p) == p + Len(NewYorkTimesMiniCrosswordIn)
        Qs(p) == {q \in Group(p) + 1..Len(msg) :
                     /\ msg[q] = "!"
                     /\ \A k \in Group(p)..q - 1 : IsDot(msg[k])}
    IN  UNION {{<<p, q>> : q \in Qs(p)} : p \in ps}

\* mini_pattern_app.search(message).group(1): the leftmost start; both
\* quantifiers are greedy, so the last place of the words, then the last
\* "!" of the line.
mini_pattern_app_search(msg) ==
    LET starts == {i \in 1..Len(msg) :
                      /\ StartsAt(msg, i, ISolvedThe)
                      /\ MiniAppPlaces(msg, i) # {}}
    IN  IF starts = {} THEN NoMatch
        ELSE LET i == CHOOSE a \in starts : \A b \in starts : a <= b
                 places == MiniAppPlaces(msg, i)
                 pq == CHOOSE a \in places : \A b \in places :
                           \/ a[1] > b[1]
                           \/ a[1] = b[1] /\ a[2] >= b[2]
             IN  SubSeq(msg, pq[1] + Len(NewYorkTimesMiniCrosswordIn),
                        pq[2] - 1)

\* str.split(":"): the pieces between the colons.
RECURSIVE split(_, _)
split(text, sep) ==
    LET seps == {i \in 1..Len(text) : text[i] = sep}
    IN  IF seps = {} THEN <<text>>
        ELSE LET i == CHOOSE a \in seps : \A b \in seps : a <= b
             IN  <<SubSeq(text, 1, i - 1)>>
                 \o split(SubSeq(text, i + 1, Len(text)), sep)

\* int(text) reads decimal digits, blanks around them dropped; anything
\* else raises ValueError.
RECURSIVE strip(_)
strip(text) ==
    IF text # <<>> /\ text[1] = " " THEN strip(Tail(text))
    ELSE IF text # <<>> /\ text[Len(text)] = " "
         THEN strip(SubSeq(text, 1, Len(text) - 1))
         ELSE text

IsInt(text) ==
    /\ strip(text) # <<>>
    /\ \A k \in 1..Len(strip(text)) : IsDigit(strip(text)[k])

RECURSIVE DecimalValue(_)
DecimalValue(text) ==
    IF text = <<>> THEN 0
    ELSE 10 * DecimalValue(SubSeq(text, 1, Len(text) - 1))
         + DigitValue(text[Len(text)])

int(text) == DecimalValue(strip(text))

\* minutes, seconds = map(int, minutes_seconds.split(":")): two pieces,
\* each a number, or ValueError.
MinutesSeconds(msg) ==
    LET pieces == split(mini_pattern_app_search(msg), ":")
    IN  IF Len(pieces) = 2 /\ IsInt(pieces[1]) /\ IsInt(pieces[2])
        THEN [error |-> "", minutes |-> int(pieces[1]),
              seconds |-> int(pieces[2])]
        ELSE [error |-> ValueError, minutes |-> 0, seconds |-> 0]

\* The minutes counted as hundreds, as the text m:ss reads without its colon.
mini_time_app_hundreds(msg) ==
    LET ms == MinutesSeconds(msg)
    IN  IF ms.error # "" THEN Raises(ms.error)
        ELSE Returned((ms.minutes * 100) + ms.seconds)

\* mini_time_app: (minutes * 60) + seconds.
mini_time_app(msg) ==
    LET ms == MinutesSeconds(msg)
    IN  IF ms.error # "" THEN Raises(ms.error)
        ELSE Returned((ms.minutes * 60) + ms.seconds)

\* ------------------------------------------------------------ messages
\* "Wordle <N> <k>/6", with what may stand before and after it.
WordleMessage(before, n, k, after) ==
    before \o <<"W", "o", "r", "d", "l", "e", " ">> \o n \o <<" ", k, "/", "6">>
    \o after

Befores == {<<>>, <<"h", "i", "\n">>}

PuzzleNumbers == {<<"9">>, <<"9", "0", "0">>, <<"1", ",", "2", "3", "4">>}

AttemptChars == {"1", "2", "3", "4", "5", "6", "X"}

Afters == {<<>>, <<"*">>, <<"\n", "\n", "#", "#", "#", "#", "#">>}

\* A Connections result: the header "Connections", "Puzzle #<N>", then one
\* line of four squares for each guess, and what may stand after them.
GuessLines ==
    {<<Yellow, Yellow, Yellow, Yellow>>, <<Purple, Purple, Purple, Purple>>,
     <<Green, Blue, Green, Green>>}

Guesses ==
    UNION {[1..n -> GuessLines] : n \in 1..MaxGuesses}

RECURSIVE JoinLines(_)
JoinLines(lines) ==
    IF lines = <<>> THEN <<>>
    ELSE <<"\n">> \o Head(lines) \o JoinLines(Tail(lines))

ConnectionsHeader ==
    <<"C", "o", "n", "n", "e", "c", "t", "i", "o", "n", "s", " ",
      "\n", "P", "u", "z", "z", "l", "e", " ", "#", "1", "2">>

ConnectionsMessage(guesses, after) ==
    ConnectionsHeader \o JoinLines(guesses) \o after

\* Nothing, a line of text, and a line of text with a character of
\* connection_colours in it (U+00A9, the copyright sign).
ConnectionsAfters ==
    {<<>>, <<"\n", "g", "g">>, <<"\n", "U+00A9", " ", "m", "e">>}

AllSame(line) == \A k \in 1..Len(line) : line[k] = line[1]

\* A Mini result shared as a link: the badge address with the time t in
\* seconds.
MiniLinkMessage(t) ==
    <<"h", "t", "t", "p", "s", ":", "/", "/", "n", "y", "t", "i",
      "m", "e", "s", ".", "c", "o", "m", "/", "b", "a", "d", "g",
      "e", "s", "/", "g", "a", "m", "e", "s", "/", "m", "i", "n",
      "i", ".", "h", "t", "m", "l", "?", "d", "=", "1", "&", "t",
      "=">>
    \o t \o <<"&", "c", "=", "1">>

LinkTimes == {<<"7">>, <<"4", "5">>, <<"1", "3", "5">>}

\* A Mini result shared from the app: "I solved the <date> New York Times
\* Mini Crossword in <m>:<ss>!".
Minutes == {0, 2, 12}

Seconds == {0, 5, 15, 59}

\* n as the app writes it: its decimal digits, and two digits for seconds.
RECURSIVE Decimal(_)
Decimal(n) ==
    IF n < 10 THEN <<Digits[n + 1]>>
    ELSE Decimal(n \div 10) \o <<Digits[(n % 10) + 1]>>

TwoDigits(n) == <<Digits[(n \div 10) + 1], Digits[(n % 10) + 1]>>

MiniAppDates == {<<"1", "/", "2", "/", "2", "0", "2", "4">>, <<"T", "u", "e", "s", "d", "a", "y">>}

MiniAppAfters == {<<>>, <<"\n", "n", "y", "t", "i", "m", "e", "s", ".", "c", "o", "m",
                          "/", "c", "r", "o", "s", "s", "w", "o", "r", "d", "s">>}

MiniAppMessage(date, m, s, after) ==
    ISolvedThe \o date \o NewYorkTimesMiniCrosswordIn
    \o Decimal(m) \o <<":">> \o TwoDigits(s) \o <<"!">> \o after

Messages ==
    {WordleMessage(b, n, k, a) :
        b \in Befores, n \in PuzzleNumbers, k \in AttemptChars, a \in Afters}
    \cup {ConnectionsMessage(g, a) : g \in Guesses, a \in ConnectionsAfters}
    \cup {MiniLinkMessage(t) : t \in LinkTimes}
    \cup {MiniAppMessage(d, m, s, a) :
             d \in MiniAppDates, m \in Minutes, s \in Seconds,
             a \in MiniAppAfters}
    \cup {<<"W", "o", "r", "d", "l", "e">>, <<"h", "i">>}

ParseInit ==
    /\ message \in Messages
    /\ store = <<>>
    /\ today \in ClockDates
    /\ update = NoUpdate
    /\ out = <<>>
    /\ pc = Idle
    /\ args = NoArgs
    /\ parsed = NoParse
    /\ ranked = NoRanked
    /\ totals = NoTotals

\* handle_messages, the branch of connections_pattern: the attempts handed
\* to add_game, or the error connections_attempts raised.
ParseConnections ==
    /\ parsed = NoParse
    /\ connections_pattern_search(message)
    /\ LET attempts == connections_attempts(message)
       IN  parsed' = Parsed("Connections", <<>>, attempts.number,
                            attempts.error)
    /\ UNCHANGED <<store, today, update, out, pc, args, message, ranked, totals>>

\* handle_messages, the branch of mini_pattern.
ParseMini ==
    /\ parsed = NoParse
    /\ ~connections_pattern_search(message)
    /\ mini_pattern_search(message) # NoMatch
    /\ parsed' = Parsed("Mini", mini_time(message), 0, "")
    /\ UNCHANGED <<store, today, update, out, pc, args, message, ranked, totals>>

\* handle_messages, the branch of mini_pattern_app.
ParseMiniApp ==
    /\ parsed = NoParse
    /\ ~connections_pattern_search(message)
    /\ mini_pattern_search(message) = NoMatch
    /\ mini_pattern_app_search(message) # NoMatch
    /\ LET time == mini_time_app(message)
       IN  parsed' = Parsed("Mini", <<>>, time.number, time.error)
    /\ UNCHANGED <<store, today, update, out, pc, args, message, ranked, totals>>

\* handle_messages, the branch of wordle_pattern: the score handed to
\* add_game.
ParseWordle ==
    /\ parsed = NoParse
    /\ ~connections_pattern_search(message)
    /\ mini_pattern_search(message) = NoMatch
    /\ mini_pattern_app_search(message) = NoMatch
    /\ wordle_pattern_search(message) # NoMatch
    /\ parsed' = Parsed("Wordle", wordle_attempts(message), 0, "")
    /\ UNCHANGED <<store, today, update, out, pc, args, message, ranked, totals>>

ParseNext ==
    \/ ParseConnections
    \/ ParseMini
    \/ ParseMiniApp
    \/ ParseWordle

ParseSpec == ParseInit /\ [][ParseNext]_vars

\* ------------------------------------------------------------ claims, ParseSpec
\* C10: a message with the header "Wordle <N> <k>/6" parses to the score 7
\* when k is X and to the number k spells when k is one of 1..6.
C10_WordleScore ==
    \A b \in Befores, n \in PuzzleNumbers, k \in AttemptChars, a \in Afters :
        (message = WordleMessage(b, n, k, a) /\ parsed # NoParse) =>
            /\ parsed.game = "Wordle"
            /\ Len(parsed.score) = 1
            /\ k = "X" => /\ parsed.score = <<"7">>
                          /\ IntegerColumn(parsed.score) = 7
            /\ k # "X" => /\ parsed.score = <<k>>
                          /\ IntegerColumn(parsed.score) \in 1..6

\* C10 witness: the failed puzzle "Wordle 900 X/6" was parsed, to 7.
C10_Witness ==
    /\ message = WordleMessage(<<>>, <<"9", "0", "0">>, "X", <<>>)
    /\ parsed = Parsed("Wordle", <<"7">>, 0, "")

\* C11: a Connections message with n >= 1 guess lines of squares, and no
\* square in any other line, parses to n attempts when the last guess line
\* is of one colour and to 8 when it mixes colours.
C11_ConnectionsAttempts ==
    \A g \in Guesses, a \in {<<>>, <<"\n", "g", "g">>} :
        (message = ConnectionsMessage(g, a) /\ parsed # NoParse) =>
            /\ parsed.game = "Connections"
            /\ parsed.error = ""
            /\ parsed.number = IF AllSame(g[Len(g)]) THEN Len(g) ELSE 8

\* C12: an app-form Mini message that gives the time as <m>:<ss> parses to
\* m * 60 + s seconds.
C12_MiniAppSeconds ==
    \A d \in MiniAppDates, m \in Minutes, s \in Seconds, a \in MiniAppAfters :
        (message = MiniAppMessage(d, m, s, a) /\ parsed # NoParse) =>
            /\ parsed.game = "Mini"
            /\ parsed.error = ""
            /\ parsed.number = (m * 60) + s

\* C12 witness: "... Mini Crossword in 2:15!" was parsed, to 135.
C12_Witness ==
    /\ \E d \in MiniAppDates, a \in MiniAppAfters :
          message = MiniAppMessage(d, 2, 15, a)
    /\ parsed = Parsed("Mini", <<>>, 135, "")

====
